---- MODULE Spec2Model ----
(***************************************************************************)
(* pysimplex: the unit converter (src/conversions.py) and the SimplexMotion *)
(* motor driver (src/pysimplexmotor.py) as state machines.                  *)
(*                                                                          *)
(* The converter's arithmetic is Python float (IEEE 754 binary64)           *)
(* arithmetic followed by math.floor.  It is modelled bit-exactly: a float  *)
(* is a sign, a 53-bit significand and a binary exponent, and every         *)
(* division and multiplication rounds to nearest, ties to even.  The        *)
(* significand is kept as a sequence of 15-bit limbs (least significant     *)
(* first) so that no intermediate value leaves the 32-bit integers.         *)
(***************************************************************************)
EXTENDS Integers, Sequences, FiniteSets, TLC

VARIABLES
    gear_multiplier,  \* PySimplexConverter.gear_multiplier
    cv_pc,            \* position of the converter's caller
    cv_arg,           \* the integer the caller starts from
    cv_steps,         \* convert_degrees_to_smunits(cv_arg)
    cv_degrees,       \* convert_smunits_to_degrees(cv_steps)
    cv_steps2,        \* a later argument in SMUnits, cv_steps2 >= cv_steps
    cv_degrees2,      \* convert_smunits_to_degrees(cv_steps2)
    wheel_size,       \* PySimplexConverter.wheel_size: <<>> while the attribute is not set
    cv_init,          \* the arguments the constructor was called with
    cv_call,          \* the conversion called last, with its argument
    cv_ret            \* how the constructor or the conversion called last ended

VARIABLES
    registers,        \* the devices' holding registers: unit -> register name -> block of 16-bit values
    pc,               \* pc[m]: where Motor m's current call stands ("idle" between calls)
    call,             \* call[m]: the operation Motor m runs or ran last, with its arguments
    locals,           \* locals[m]: the local variables of the running call
    ret,              \* ret[m]: how the last call ended (returned value or raised exception)
    bus_log           \* the exchanges made on the bus client since the current call began

cv_vars ==
    <<gear_multiplier, cv_pc, cv_arg, cv_steps, cv_degrees, cv_steps2, cv_degrees2,
      wheel_size, cv_init, cv_call, cv_ret>>

motor_vars == <<registers, pc, call, locals, ret, bus_log>>

vars == <<cv_vars, motor_vars>>

(***************************************************************************)
(* Bounds of the model.                                                     *)
(***************************************************************************)
MaxGear == 15
MaxArg == 100
MaxSpan == 8
MaxUnits == 1
MaxFaults == 1

(***************************************************************************)
(* Python float arithmetic.                                                 *)
(***************************************************************************)
MantBits == 53
LimbBits == 15
Base == 2 ^ LimbBits

NoValue == "None"

RECURSIVE BitLen(_)
BitLen(x) == IF x = 0 THEN 0 ELSE 1 + BitLen(x \div 2)

RECURSIVE Trim(_)
Trim(n) ==
    IF Len(n) > 0 /\ n[Len(n)] = 0 THEN Trim(SubSeq(n, 1, Len(n) - 1)) ELSE n

RECURSIVE IntToBig(_)
IntToBig(x) == IF x = 0 THEN <<>> ELSE <<x % Base>> \o IntToBig(x \div Base)

RECURSIVE BigToInt(_)
BigToInt(n) == IF n = <<>> THEN 0 ELSE Head(n) + Base * BigToInt(Tail(n))

BigBitLen(n) ==
    IF n = <<>> THEN 0 ELSE (Len(n) - 1) * LimbBits + BitLen(n[Len(n)])

RECURSIVE MulLimbs(_, _, _)
MulLimbs(n, b, c) ==
    IF n = <<>>
    THEN (IF c = 0 THEN <<>> ELSE <<c>>)
    ELSE LET p == Head(n) * b + c
         IN  <<p % Base>> \o MulLimbs(Tail(n), b, p \div Base)

RECURSIVE DivLimbs(_, _)
DivLimbs(n, b) ==
    IF n = <<>>
    THEN [q |-> <<>>, r |-> 0]
    ELSE LET hi  == DivLimbs(Tail(n), b)
             cur == hi.r * Base + Head(n)
         IN  [q |-> <<cur \div b>> \o hi.q, r |-> cur % b]

RECURSIVE ShiftLeft(_, _)
ShiftLeft(n, k) ==
    IF k = 0 THEN n
    ELSE IF k >= LimbBits THEN ShiftLeft(<<0>> \o n, k - LimbBits)
    ELSE MulLimbs(n, 2 ^ k, 0)

RECURSIVE ShiftRightSticky(_, _, _)
ShiftRightSticky(n, k, sticky) ==
    IF k = 0 \/ n = <<>> THEN [q |-> n, sticky |-> sticky]
    ELSE IF k >= LimbBits
    THEN ShiftRightSticky(Tail(n), k - LimbBits, sticky \/ Head(n) # 0)
    ELSE LET d == DivLimbs(n, 2 ^ k)
         IN  [q |-> Trim(d.q), sticky |-> sticky \/ d.r # 0]

FloatZero == [sign |-> 0, man |-> <<>>, exp |-> 0]

(* sign * (n + a fraction, present iff sticky) * 2^e, rounded to nearest,   *)
(* ties to even; BigBitLen(n) >= MantBits + 2.                              *)
RoundToFloat(sign, n, e, sticky) ==
    LET sh   == BigBitLen(n) - (MantBits + 1)
        s1   == ShiftRightSticky(n, sh, sticky)
        rbit == s1.q[1] % 2
        m0   == Trim(DivLimbs(s1.q, 2).q)
        up   == rbit = 1 /\ (s1.sticky \/ m0[1] % 2 = 1)
        m1   == IF up THEN Trim(MulLimbs(m0, 1, 1)) ELSE m0
    IN  IF BigBitLen(m1) > MantBits
        THEN [sign |-> sign, man |-> Trim(DivLimbs(m1, 2).q), exp |-> e + sh + 2]
        ELSE [sign |-> sign, man |-> m1, exp |-> e + sh + 1]

float_from_int(x) ==
    IF x = 0 THEN FloatZero
    ELSE LET n == IntToBig(IF x < 0 THEN -x ELSE x)
             l == BigBitLen(n)
         IN  [sign |-> IF x < 0 THEN -1 ELSE 1,
              man  |-> ShiftLeft(n, MantBits - l),
              exp  |-> l - MantBits]

Abs(x) == IF x < 0 THEN -x ELSE x

Sign(x) == IF x < 0 THEN -1 ELSE IF x = 0 THEN 0 ELSE 1

(* a / b for a float a and an integer b, 0 < |b| < Base *)
float_truediv(a, b) ==
    IF a.sign = 0 THEN FloatZero
    ELSE LET k == BitLen(Abs(b)) + 2
             d == DivLimbs(ShiftLeft(a.man, k), Abs(b))
         IN  RoundToFloat(a.sign * Sign(b), Trim(d.q), a.exp - k, d.r # 0)

(* a * b for a float a and an integer b, |b| < Base *)
float_mul(a, b) ==
    IF a.sign = 0 \/ b = 0 THEN FloatZero
    ELSE RoundToFloat(a.sign * Sign(b), MulLimbs(ShiftLeft(a.man, 2), Abs(b), 0),
                      a.exp - 2, FALSE)

RECURSIVE AddLimbs(_, _, _)
AddLimbs(a, b, c) ==
    IF a = <<>> /\ b = <<>>
    THEN (IF c = 0 THEN <<>> ELSE <<c>>)
    ELSE LET x == (IF a = <<>> THEN 0 ELSE Head(a)) + (IF b = <<>> THEN 0 ELSE Head(b)) + c
         IN  <<x % Base>> \o AddLimbs(IF a = <<>> THEN a ELSE Tail(a),
                                      IF b = <<>> THEN b ELSE Tail(b), x \div Base)

(* a - b - borrow for a >= b + borrow *)
RECURSIVE SubLimbs(_, _, _)
SubLimbs(a, b, borrow) ==
    IF a = <<>> THEN <<>>
    ELSE LET x == Head(a) - (IF b = <<>> THEN 0 ELSE Head(b)) - borrow
         IN  <<IF x < 0 THEN x + Base ELSE x>>
                 \o SubLimbs(Tail(a), IF b = <<>> THEN b ELSE Tail(b), IF x < 0 THEN 1 ELSE 0)

(* a >= b, for a and b without leading zero limbs *)
RECURSIVE GeqLimbs(_, _)
GeqLimbs(a, b) ==
    IF Len(a) # Len(b) THEN Len(a) > Len(b)
    ELSE IF a = <<>> THEN TRUE
    ELSE IF a[Len(a)] # b[Len(b)] THEN a[Len(a)] > b[Len(b)]
    ELSE GeqLimbs(SubSeq(a, 1, Len(a) - 1), SubSeq(b, 1, Len(b) - 1))

RECURSIVE MulBig(_, _)
MulBig(a, b) ==
    IF b = <<>> THEN <<>>
    ELSE AddLimbs(MulLimbs(a, Head(b), 0), <<0>> \o MulBig(a, Tail(b)), 0)

(* one step of the binary long division by d: the next quotient bit *)
DivBitsStep(s, d) ==
    LET bit == GeqLimbs(s.r, d)
        r   == IF bit THEN Trim(SubLimbs(s.r, d, 0)) ELSE s.r
    IN  [q |-> IF bit THEN AddLimbs(s.q, <<1>>, 0) ELSE s.q,
         r |-> r,
         k |-> s.k - 1]

(* the division carried on for the s.k bits that are left *)
RECURSIVE DivBitsFrom(_, _)
DivBitsFrom(s, d) ==
    IF s.k = 0 THEN DivBitsStep(s, d)
    ELSE LET t == DivBitsStep(s, d)
         IN  DivBitsFrom([q |-> MulLimbs(t.q, 2, 0), r |-> Trim(MulLimbs(t.r, 2, 0)), k |-> t.k], d)

(* quotient and remainder of n * 2^k by d, for n < 2 * d *)
DivBits(n, d, k) == DivBitsFrom([q |-> <<>>, r |-> Trim(n), k |-> k], d)

(* a * b for floats a and b *)
float_mul_float(a, b) ==
    IF a.sign = 0 \/ b.sign = 0 THEN FloatZero
    ELSE RoundToFloat(a.sign * b.sign, Trim(MulBig(a.man, b.man)), a.exp + b.exp, FALSE)

(* a / b for floats a and b, b not zero *)
float_truediv_float(a, b) ==
    IF a.sign = 0 THEN FloatZero
    ELSE LET d == DivBits(a.man, b.man, MantBits + 2)
         IN  RoundToFloat(a.sign * b.sign, Trim(d.q), a.exp - b.exp - (MantBits + 2),
                          d.r # <<>>)

(* math.pi = 0x1921FB54442D18 * 2^-51 *)
math_pi == [sign |-> 1, man |-> <<11544, 10376, 2029, 201>>, exp |-> -51]

(* int(math.floor(a)) *)
floor(a) ==
    IF a.sign = 0 THEN 0
    ELSE IF a.exp >= 0 THEN a.sign * BigToInt(ShiftLeft(a.man, a.exp))
    ELSE LET s == ShiftRightSticky(a.man, -a.exp, FALSE)
             q == BigToInt(s.q)
         IN  IF a.sign > 0 THEN q ELSE -(q + (IF s.sticky THEN 1 ELSE 0))

(***************************************************************************)
(* PySimplexConverter                                                       *)
(***************************************************************************)
(* faulty variant: the gear multiplier is not divided out *)
convert_smunits_to_degrees_no_gear(gear, steps) ==
    LET percentage_of_steps == float_truediv(float_from_int(steps), 4096)
        degrees == float_mul(percentage_of_steps, 360)
    IN  floor(degrees)

(* faulty variant: the sign of steps is dropped *)
convert_smunits_to_degrees_abs(gear, steps) ==
    LET percentage_of_steps ==
            float_truediv(float_truediv(float_from_int(IF steps < 0 THEN -steps ELSE steps), 4096), gear)
        degrees == float_mul(percentage_of_steps, 360)
    IN  floor(degrees)

convert_smunits_to_degrees(gear, steps) ==
    LET percentage_of_steps == float_truediv(float_truediv(float_from_int(steps), 4096), gear)
        degrees == float_mul(percentage_of_steps, 360)
    IN  floor(degrees)

convert_degrees_to_smunits(gear, degrees) ==
    LET percentage_of_movement == float_truediv(float_from_int(degrees), 360)
        steps == float_mul(float_mul(percentage_of_movement, 4096), gear)
    IN  floor(steps)

convert_meters_to_steps(gear, wheel, meters) ==
    LET distance_per_rotation_of_wheel == float_mul(float_mul(math_pi, wheel), 2)
        meters_as_rotation_multiplier ==
            float_truediv_float(float_from_int(meters), distance_per_rotation_of_wheel)
        steps == float_mul(float_mul(meters_as_rotation_multiplier, 4096), gear)
    IN  floor(steps)

convert_steps_to_meters(gear, wheel, steps) ==
    LET steps_as_multiplier == float_truediv(float_truediv(float_from_int(steps), 4096), gear)
        distance == float_mul_float(float_mul(float_mul(math_pi, 2), wheel), steps_as_multiplier)
    IN  floor(distance)


(***************************************************************************)
(* pymodbus payload encoding, byteorder = wordorder = Endian.Big            *)
(***************************************************************************)
(* BinaryPayloadBuilder.add_32bit_int: struct.pack('>i', value) *)
add_32bit_int(value) ==
    << (value \div 16777216) % 256, (value \div 65536) % 256,
       (value \div 256) % 256, value % 256 >>

(* faulty variant: the registers in little-endian word order *)
to_registers_little(payload) ==
    [i \in 1..(Len(payload) \div 2) |->
        payload[Len(payload) - 2 * i + 1] * 256 + payload[Len(payload) - 2 * i + 2]]

(* BinaryPayloadBuilder.to_registers: one register per two payload bytes *)
to_registers(payload) ==
    [i \in 1..(Len(payload) \div 2) |-> payload[2 * i - 1] * 256 + payload[2 * i]]

(* BinaryPayloadDecoder.fromRegisters: two payload bytes per register *)
fromRegisters(regs) ==
    [i \in 1..(2 * Len(regs)) |->
        IF i % 2 = 1 THEN regs[(i + 1) \div 2] \div 256 ELSE regs[i \div 2] % 256]

(* BinaryPayloadDecoder.decode_32bit_int: struct.unpack('>i') of 4 bytes *)
decode_32bit_int(payload) ==
    (IF payload[1] >= 128 THEN payload[1] - 256 ELSE payload[1]) * 16777216
        + payload[2] * 65536 + payload[3] * 256 + payload[4]

(* BinaryPayloadDecoder.decode_16bit_int: struct.unpack('>h') of 2 bytes *)
decode_16bit_int(payload) ==
    (IF payload[1] >= 128 THEN payload[1] - 256 ELSE payload[1]) * 256 + payload[2]

(***************************************************************************)
(* The bus client and the devices behind it                                 *)
(***************************************************************************)
SPEED_MODE == 33
POSITION_MODE == 21
RESET == 1
STOP == 5

Motors == {"m1", "m2"}

(* PySimplexMotor.address *)
address == [m \in Motors |-> IF m = "m1" THEN 1 ELSE 2]

Units == {address[m] : m \in Motors}

Modes == {SPEED_MODE, POSITION_MODE, RESET, STOP}

SpeedInputs == 1..MaxUnits
AccInputs == (MaxUnits + 1)..(2 * MaxUnits)
StepInputs == {-70000, 4096}
TargetInputs == {-2147483647 - 1, -65537, -65536, -1, 0, 16, 65535, 65536, 2147483647}
RawWords == {0, 1, 32767, 32768, 65535}

(* the registers of one device *)
Device(mode, target, running, voltage, current, operating, error) ==
    [r \in {"MODE", "SET_MOTOR_TARGET", "MOTOR_MAX_SPEED", "MOTOR_MAX_ACCELERATION",
            "MOTOR_POS", "MOTOR_VOLTAGE", "TORQUE_CURRENT", "TEMP_ELECTRONICS", "ERROR",
            "MOTOR_SPEED", "MOTOR_TORQUE", "MOTOR_RAMP_ACC", "MOTOR_MAX_TORQUE",
            "MOTOR_MAX_DECELERATION"} |->
        CASE r = "MODE" -> <<mode>>
          [] r = "SET_MOTOR_TARGET" -> target
          [] r = "MOTOR_MAX_SPEED" -> <<0>>
          [] r = "MOTOR_MAX_ACCELERATION" -> <<0>>
          [] r = "MOTOR_SPEED" -> <<0>>
          [] r = "MOTOR_TORQUE" -> <<0>>
          [] r = "MOTOR_RAMP_ACC" -> <<0>>
          [] r = "MOTOR_MAX_TORQUE" -> <<0>>
          [] r = "MOTOR_MAX_DECELERATION" -> <<0>>
          [] r = "MOTOR_POS" -> running
          [] r = "MOTOR_VOLTAGE" -> <<voltage>>
          [] r = "TORQUE_CURRENT" -> <<current>>
          [] r = "TEMP_ELECTRONICS" -> operating
          [] r = "ERROR" -> <<error>>]

IdleDevice(mode) == Device(mode, <<0, 0>>, <<0, 0, 0, 0>>, 0, 0, <<0, 0>>, 0)

Running == [kind |-> "running"]
Returned(value) == [kind |-> "return", value |-> value]
Raised(msg) == [kind |-> "raise", msg |-> msg]

Others(m) == Motors \ {m}

(* the log a call's first exchange is appended to *)
LogAtCall(m) ==
    IF \A o \in Others(m) : pc[o] \in {"idle", "absent"} THEN <<>> ELSE bus_log

(* ModbusSerialClient.read_holding_registers(reg, count, unit): the response *)
read_holding_registers(reg, count, unit, err) ==
    [fn |-> "read_holding_registers", address |-> reg, count |-> count, unit |-> unit,
     error |-> err,
     registers |-> IF err THEN <<>> ELSE SubSeq(registers[unit][reg], 1, count)]

(* ModbusSerialClient.write_register / write_registers: the exchange *)
write_request(fn, reg, values, unit, err) ==
    [fn |-> fn, address |-> reg, values |-> values, unit |-> unit, error |-> err]

(* the device after a write; a write answered with an error may or may not *)
(* have reached the register                                                *)
Written(reg, values, unit, applied) ==
    IF applied
    THEN [registers EXCEPT ![unit][reg] = values \o SubSeq(@, Len(values) + 1, Len(@))]
    ELSE registers

(* one write exchange of Motor m, appended to log *)
BusWrite(m, log, fn, reg, values, err, applied) ==
    /\ ~err => applied
    /\ registers' = Written(reg, values, address[m], applied)
    /\ bus_log' = Append(log, [by |-> m] @@ write_request(fn, reg, values, address[m], err))
    /\ UNCHANGED cv_vars

(* one read exchange of Motor m, appended to log *)
BusRead(m, log, response) ==
    /\ bus_log' = Append(log, [by |-> m] @@ response)
    /\ UNCHANGED registers
    /\ UNCHANGED cv_vars

(* the call ends *)
Finish(m, outcome) ==
    /\ pc' = [pc EXCEPT ![m] = "idle"]
    /\ ret' = [ret EXCEPT ![m] = outcome]

(* the call goes on at label *)
Goto(m, label) ==
    /\ pc' = [pc EXCEPT ![m] = label]
    /\ ret' = [ret EXCEPT ![m] = Running]

NoMotor ==
    /\ registers = [u \in Units |-> IdleDevice(RESET)]
    /\ pc = [m \in Motors |-> "absent"]
    /\ call = [m \in Motors |-> [op |-> "none"]]
    /\ locals = [m \in Motors |-> <<>>]
    /\ ret = [m \in Motors |-> [kind |-> "none"]]
    /\ bus_log = <<>>

NoConverter ==
    /\ gear_multiplier = 1
    /\ cv_pc = "absent"
    /\ cv_arg = 0
    /\ cv_steps = NoValue
    /\ cv_degrees = NoValue
    /\ cv_steps2 = NoValue
    /\ cv_degrees2 = NoValue
    /\ wheel_size = <<>>
    /\ cv_init = [op |-> "none"]
    /\ cv_call = [op |-> "none"]
    /\ cv_ret = [kind |-> "none"]


(***************************************************************************)
(* PySimplexMotor: go_with_speed and go_to_position, one action per bus     *)
(* exchange                                                                 *)
(***************************************************************************)
(* faulty variant: the branch condition inverted *)
NeedsModeSwitchInverted(read_mode, target_mode) == read_mode = target_mode

(* read_mode != 33, read_mode != 21 *)
NeedsModeSwitch(read_mode, target_mode) == read_mode # target_mode

(* BinaryPayloadBuilder(...).add_32bit_int(target); builder.to_registers() *)
TargetRegisters(target) == to_registers(add_32bit_int(target))

(* faulty variant: the mode read by an earlier call is reused for the branch *)
GetModeStepCached(m, op_call, target_mode, switch_label, skip_label) ==
    \E err \in BOOLEAN :
        LET mode   == read_holding_registers("MODE", 1, address[m], err)
            cached == IF "read_mode" \in DOMAIN locals[m]
                      THEN locals[m].read_mode ELSE mode.registers[1]
        IN  /\ call' = [call EXCEPT ![m] = op_call]
            /\ BusRead(m, LogAtCall(m), mode)
            /\ IF mode.error
               THEN /\ Finish(m, Raised("Unable to retrieve current mode"))
                    /\ UNCHANGED locals
               ELSE /\ locals' = [locals EXCEPT ![m] = [read_mode |-> cached]]
                    /\ Goto(m, IF NeedsModeSwitch(cached, target_mode)
                               THEN switch_label ELSE skip_label)

(* read_mode = self.get_mode(), and the branch on it *)
GetModeStep(m, op_call, target_mode, switch_label, skip_label) ==
    \E err \in BOOLEAN :
        LET mode == read_holding_registers("MODE", 1, address[m], err)
        IN  /\ call' = [call EXCEPT ![m] = op_call]
            /\ BusRead(m, LogAtCall(m), mode)
            /\ IF mode.error
               THEN /\ Finish(m, Raised("Unable to retrieve current mode"))
                    /\ locals' = [locals EXCEPT ![m] = <<>>]
               ELSE /\ locals' = [locals EXCEPT ![m] = [read_mode |-> mode.registers[1]]]
                    /\ Goto(m, IF NeedsModeSwitch(mode.registers[1], target_mode)
                               THEN switch_label ELSE skip_label)

(* faulty variant: the result of reset_motor is dropped *)
ResetStepUnchecked(m, next_label) ==
    /\ \E err \in BOOLEAN, applied \in BOOLEAN :
          BusWrite(m, bus_log, "write_register", "MODE", <<RESET>>, err, applied)
    /\ Goto(m, next_label)
    /\ UNCHANGED <<call, locals>>

(* reset = self.reset_motor(); if not reset: raise *)
ResetStep(m, next_label) ==
    /\ \E err \in BOOLEAN, applied \in BOOLEAN :
          LET reset == ~err
          IN  /\ BusWrite(m, bus_log, "write_register", "MODE", <<RESET>>, err, applied)
              /\ IF ~reset
                 THEN Finish(m, Raised("Unable to reset motor"))
                 ELSE Goto(m, next_label)
    /\ UNCHANGED <<call, locals>>

(* a setter called as a statement: its boolean result is dropped *)
SetterStep(m, reg, value, next_label) ==
    /\ \E err \in BOOLEAN, applied \in BOOLEAN :
          BusWrite(m, bus_log, "write_register", reg, <<value>>, err, applied)
    /\ Goto(m, next_label)
    /\ UNCHANGED <<call, locals>>

(* faulty variant: the call returns whether all of its writes succeeded *)
ReturnSetTargetStepAll(m, target) ==
    /\ \E err \in BOOLEAN, applied \in BOOLEAN :
          /\ BusWrite(m, bus_log, "write_registers", "SET_MOTOR_TARGET",
                      TargetRegisters(target), err, applied)
          /\ Finish(m, Returned(~err /\ \A i \in DOMAIN bus_log : ~bus_log[i].error))
    /\ UNCHANGED <<call, locals>>

(* return self.set_target(target) *)
ReturnSetTargetStep(m, target) ==
    /\ \E err \in BOOLEAN, applied \in BOOLEAN :
          /\ BusWrite(m, bus_log, "write_registers", "SET_MOTOR_TARGET",
                      TargetRegisters(target), err, applied)
          /\ Finish(m, Returned(~err))
    /\ UNCHANGED <<call, locals>>

go_with_speed_get_mode(m) ==
    /\ pc[m] = "idle"
    /\ \E speed_units \in SpeedInputs, acc_units \in AccInputs :
          GetModeStep(m, [op |-> "go_with_speed", speed_units |-> speed_units,
                          acc_units |-> acc_units],
                      SPEED_MODE, "gws_reset_motor", "gws_set_max_acceleration")

go_with_speed_reset_motor(m) ==
    /\ pc[m] = "gws_reset_motor"
    /\ ResetStep(m, "gws_set_mode")

(* faulty variant: the mode write is left out *)
go_with_speed_set_mode_skipped(m) ==
    /\ pc[m] = "gws_set_mode"
    /\ Goto(m, "gws_set_max_acceleration")
    /\ UNCHANGED <<registers, bus_log, call, locals>>
    /\ UNCHANGED cv_vars

go_with_speed_set_mode(m) ==
    /\ pc[m] = "gws_set_mode"
    /\ SetterStep(m, "MODE", SPEED_MODE, "gws_set_max_acceleration")

go_with_speed_set_max_acceleration(m) ==
    /\ pc[m] = "gws_set_max_acceleration"
    /\ SetterStep(m, "MOTOR_MAX_ACCELERATION", call[m].acc_units, "gws_set_target")

go_with_speed_set_target(m) ==
    /\ pc[m] = "gws_set_target"
    /\ ReturnSetTargetStep(m, call[m].speed_units)

go_to_position_get_mode(m) ==
    /\ pc[m] = "idle"
    /\ \E steps \in StepInputs, speed_units \in SpeedInputs, acc_units \in AccInputs :
          GetModeStep(m, [op |-> "go_to_position", steps |-> steps,
                          speed_units |-> speed_units, acc_units |-> acc_units],
                      POSITION_MODE, "gtp_reset_motor", "gtp_set_max_speed")

go_to_position_reset_motor(m) ==
    /\ pc[m] = "gtp_reset_motor"
    /\ ResetStep(m, "gtp_set_mode")

go_to_position_set_mode(m) ==
    /\ pc[m] = "gtp_set_mode"
    /\ SetterStep(m, "MODE", POSITION_MODE, "gtp_set_max_speed")

(* faulty variant: max-speed is written after max-acceleration *)
go_to_position_set_max_speed_late(m) ==
    /\ pc[m] = "gtp_set_max_speed"
    /\ \E e1 \in BOOLEAN, e2 \in BOOLEAN :
          /\ registers' = [registers EXCEPT
                              ![address[m]]["MOTOR_MAX_ACCELERATION"] = <<call[m].acc_units>>,
                              ![address[m]]["MOTOR_MAX_SPEED"] = <<call[m].speed_units>>]
          /\ bus_log' = bus_log \o
                << [by |-> m] @@ write_request("write_register", "MOTOR_MAX_ACCELERATION",
                                               <<call[m].acc_units>>, address[m], e1),
                   [by |-> m] @@ write_request("write_register", "MOTOR_MAX_SPEED",
                                               <<call[m].speed_units>>, address[m], e2) >>
    /\ Goto(m, "gtp_set_target")
    /\ UNCHANGED <<call, locals>>
    /\ UNCHANGED cv_vars

go_to_position_set_max_speed(m) ==
    /\ pc[m] = "gtp_set_max_speed"
    /\ SetterStep(m, "MOTOR_MAX_SPEED", call[m].speed_units, "gtp_set_max_acceleration")

go_to_position_set_max_acceleration(m) ==
    /\ pc[m] = "gtp_set_max_acceleration"
    /\ SetterStep(m, "MOTOR_MAX_ACCELERATION", call[m].acc_units, "gtp_set_target")

go_to_position_set_target(m) ==
    /\ pc[m] = "gtp_set_target"
    /\ ReturnSetTargetStep(m, call[m].steps)



(***************************************************************************)
(* PySimplexMotor.get_current_status                                        *)
(***************************************************************************)
(* a Python value that is an int or a str *)
PyInt(n) == [type |-> "int", v |-> n]
PyStr(t) == [type |-> "str", v |-> t]
PyEq(a, b) == a.type = b.type /\ a.v = b.v

(* the if-statements on error, in the order of the source *)
ErrorTable ==
    << <<0, "No error">>,
       <<1, "General internal error">>,
       <<2, "Internal software timing error">>,
       <<3, "Error in application: code not terminating">>,
       <<4097, "General communication error">>,
       <<4098, "Invalid register error">>,
       <<4353, "Modbus parity error">>,
       <<4354, "Modbus framing error">>,
       <<4355, "Modbus overrun error">>,
       <<4356, "Modbus checksum error">>,
       <<4357, "Modbus illegal function code error">>,
       <<4358, "Modbus illegal diagnostics function code error">>,
       <<8193, "Hardware overcurrent protection triggered">>,
       <<12289, "Supply voltage too low">>,
       <<12290, "Supply voltage too high">>,
       <<16385, "Temperature of electronics is too high">>,
       <<16386, "Temperature of motor winding is too high">>,
       <<20481, "Torque limiting is active">>,
       <<24577, "Locked shaft condition detected">>,
       <<28673, "Regulator error is large">> >>

(* faulty variant: >= in place of == *)
IfErrorAtLeast(error, code, description) ==
    IF error.type = "int" /\ error.v >= code THEN PyStr(description) ELSE error

(* if error == code: error = description *)
IfErrorEquals(error, code, description) ==
    IF PyEq(error, PyInt(code)) THEN PyStr(description) ELSE error

(* the if-statements from the i-th on, applied one after the other *)
RECURSIVE ErrorChain(_, _)
ErrorChain(error, i) ==
    IF i > Len(ErrorTable) THEN error
    ELSE ErrorChain(IfErrorEquals(error, ErrorTable[i][1], ErrorTable[i][2]), i + 1)

(* faulty variant: the voltage response is left out of the check *)
AnyReadFailedNoVoltage(motor_running_data, motor_voltage_data, motor_current_data, motor_operating_data, motor_error_data) ==
    \/ motor_running_data.error
    \/ motor_error_data.error
    \/ motor_current_data.error
    \/ motor_operating_data.error

(* the condition of the raise after the five reads *)
AnyReadFailed(motor_running_data, motor_voltage_data, motor_current_data, motor_operating_data, motor_error_data) ==
    \/ motor_running_data.error
    \/ motor_error_data.error
    \/ motor_voltage_data.error
    \/ motor_current_data.error
    \/ motor_operating_data.error

(* an error response has no registers attribute: reading it raises *)
HasRegisters(motor_running_data, motor_voltage_data, motor_current_data, motor_operating_data, motor_error_data) ==
    /\ ~motor_running_data.error
    /\ ~motor_voltage_data.error
    /\ ~motor_current_data.error
    /\ ~motor_operating_data.error
    /\ ~motor_error_data.error

(* faulty variant: the torque register taken raw, as the speed register is *)
StatusTorqueRaw(running) == running[4]

(* decoder4.decode_16bit_int() over motor_running_data.registers[3:4] *)
StatusTorque(running) == decode_16bit_int(fromRegisters(SubSeq(running, 4, 4)))

(* the dictionary get_current_status returns *)
StatusRecord(running, voltage, current, operating, error) ==
    [position         |-> decode_32bit_int(fromRegisters(SubSeq(running, 1, 2))),
     speed            |-> running[3],
     torque           |-> StatusTorque(running),
     voltage          |-> decode_16bit_int(fromRegisters(voltage)),
     current          |-> decode_16bit_int(fromRegisters(current)),
     electronics_temp |-> operating[1],
     motor_temp       |-> operating[2],
     error            |-> ErrorChain(PyInt(error[1]), 1)]

(* one of the first four reads: the response is kept in a local variable *)
StatusReadStep(m, log, name, reg, count, next_label) ==
    /\ \E err \in BOOLEAN :
          LET response == read_holding_registers(reg, count, address[m], err)
          IN  /\ BusRead(m, log, response)
              /\ locals' = [locals EXCEPT ![m] = (name :> response) @@ locals[m]]
    /\ Goto(m, next_label)

get_current_status_running(m) ==
    /\ pc[m] = "idle"
    /\ call' = [call EXCEPT ![m] = [op |-> "get_current_status"]]
    /\ \E err \in BOOLEAN :
          LET response == read_holding_registers("MOTOR_POS", 4, address[m], err)
          IN  /\ BusRead(m, LogAtCall(m), response)
              /\ locals' = [locals EXCEPT ![m] = [motor_running_data |-> response]]
    /\ Goto(m, "gcs_voltage")

get_current_status_voltage(m) ==
    /\ pc[m] = "gcs_voltage"
    /\ StatusReadStep(m, bus_log, "motor_voltage_data", "MOTOR_VOLTAGE", 1, "gcs_current")
    /\ UNCHANGED call

get_current_status_current(m) ==
    /\ pc[m] = "gcs_current"
    /\ StatusReadStep(m, bus_log, "motor_current_data", "TORQUE_CURRENT", 1, "gcs_operating")
    /\ UNCHANGED call

get_current_status_operating(m) ==
    /\ pc[m] = "gcs_operating"
    /\ StatusReadStep(m, bus_log, "motor_operating_data", "TEMP_ELECTRONICS", 2, "gcs_error")
    /\ UNCHANGED call

(* the read of ERROR, the check of the five responses and the decoding *)
get_current_status_error(m) ==
    /\ pc[m] = "gcs_error"
    /\ \E err \in BOOLEAN :
          LET motor_error_data == read_holding_registers("ERROR", 1, address[m], err)
              l == locals[m]
          IN  /\ BusRead(m, bus_log, motor_error_data)
              /\ locals' = [locals EXCEPT ![m] = [motor_error_data |-> motor_error_data] @@ l]
              /\ IF AnyReadFailed(l.motor_running_data, l.motor_voltage_data,
                                  l.motor_current_data, l.motor_operating_data,
                                  motor_error_data)
                 THEN Finish(m, Raised("Unable to get motor data"))
                 ELSE IF ~HasRegisters(l.motor_running_data, l.motor_voltage_data,
                                       l.motor_current_data, l.motor_operating_data,
                                       motor_error_data)
                 THEN Finish(m, Raised("AttributeError"))
                 ELSE Finish(m, Returned(StatusRecord(l.motor_running_data.registers,
                                                      l.motor_voltage_data.registers,
                                                      l.motor_current_data.registers,
                                                      l.motor_operating_data.registers,
                                                      motor_error_data.registers)))
    /\ UNCHANGED call

(* register contents the status is read from *)
RunningInputs == { <<0, 16, 5, 65526>>, <<65535, 65535, 65535, 10>>, <<32768, 0, 32768, 32768>> }
VoltageInputs == {230, 65535}
CurrentInputs == {50, 32768}
OperatingInputs == { <<30, 25>>, <<0, 65535>> }
ErrorCodes == {ErrorTable[i][1] : i \in DOMAIN ErrorTable}
ErrorInputs ==
    (ErrorCodes \cup {c + 1 : c \in ErrorCodes} \cup {c - 1 : c \in ErrorCodes}
        \cup {255, 4096, 32768, 65535}) \cap 0..65535

InitStatus ==
    /\ NoConverter
    /\ \E running \in RunningInputs, voltage \in VoltageInputs, current \in CurrentInputs,
          operating \in OperatingInputs, error \in ErrorInputs :
          registers = [u \in Units |->
                          Device(RESET, <<0, 0>>, running, voltage, current, operating, error)]
    /\ pc = [m \in Motors |-> IF m = "m1" THEN "idle" ELSE "absent"]
    /\ call = [m \in Motors |-> [op |-> "none"]]
    /\ locals = [m \in Motors |-> <<>>]
    /\ ret = [m \in Motors |-> [kind |-> "none"]]
    /\ bus_log = <<>>

NextStatus ==
    \/ \E m \in Motors : get_current_status_running(m)
    \/ \E m \in Motors : get_current_status_voltage(m)
    \/ \E m \in Motors : get_current_status_current(m)
    \/ \E m \in Motors : get_current_status_operating(m)
    \/ \E m \in Motors : get_current_status_error(m)

SpecStatus == InitStatus /\ [][NextStatus]_vars


(***************************************************************************)
(* PySimplexMotor: set_target, get_current_target, get_position             *)
(***************************************************************************)
set_target(m) ==
    /\ pc[m] = "idle"
    /\ \E target \in TargetInputs, err \in BOOLEAN, applied \in BOOLEAN :
          /\ call' = [call EXCEPT ![m] = [op |-> "set_target", target |-> target]]
          /\ BusWrite(m, LogAtCall(m), "write_registers", "SET_MOTOR_TARGET",
                      TargetRegisters(target), err, applied)
          /\ Finish(m, Returned(~err))
    /\ UNCHANGED locals

(* a getter of a 32-bit value: one read of two registers, decoded *)
Get32(m, op, reg, msg) ==
    /\ call' = [call EXCEPT ![m] = [op |-> op]]
    /\ \E err \in BOOLEAN :
          LET response == read_holding_registers(reg, 2, address[m], err)
          IN  /\ BusRead(m, LogAtCall(m), response)
              /\ IF response.error
                 THEN Finish(m, Raised(msg))
                 ELSE Finish(m, Returned(decode_32bit_int(fromRegisters(response.registers))))
    /\ UNCHANGED locals

get_current_target(m) ==
    /\ pc[m] = "idle"
    /\ Get32(m, "get_current_target", "SET_MOTOR_TARGET", "Unable to retrieve current target")

get_position(m) ==
    /\ pc[m] = "idle"
    /\ Get32(m, "get_position", "MOTOR_POS", "Unable to retrieve current position")

InitPrimitives ==
    /\ NoConverter
    /\ \E hi \in RawWords, lo \in RawWords :
          registers = [u \in Units |->
                          Device(RESET, <<0, 0>>, <<hi, lo, 0, 0>>, 0, 0, <<0, 0>>, 0)]
    /\ pc = [m \in Motors |-> IF m = "m1" THEN "idle" ELSE "absent"]
    /\ call = [m \in Motors |-> [op |-> "none"]]
    /\ locals = [m \in Motors |-> <<>>]
    /\ ret = [m \in Motors |-> [kind |-> "none"]]
    /\ bus_log = <<>>

NextPrimitives ==
    \/ \E m \in Motors : set_target(m)
    \/ \E m \in Motors : get_current_target(m)
    \/ \E m \in Motors : get_position(m)

SpecPrimitives == InitPrimitives /\ [][NextPrimitives]_vars

(***************************************************************************)
(* PySimplexMotor: every getter and every setter                            *)
(***************************************************************************)
(* faulty variant: an error response is swallowed and None returned *)
Get16Swallowed(m, op, reg, msg) ==
    /\ call' = [call EXCEPT ![m] = [op |-> op]]
    /\ \E err \in BOOLEAN :
          LET response == read_holding_registers(reg, 1, address[m], err)
          IN  /\ BusRead(m, LogAtCall(m), response)
              /\ IF response.error
                 THEN Finish(m, Returned(NoValue))
                 ELSE Finish(m, Returned(response.registers[1]))
    /\ UNCHANGED locals

(* a getter of a single register: one read, the register returned as read *)
Get16(m, op, reg, msg) ==
    /\ call' = [call EXCEPT ![m] = [op |-> op]]
    /\ \E err \in BOOLEAN :
          LET response == read_holding_registers(reg, 1, address[m], err)
          IN  /\ BusRead(m, LogAtCall(m), response)
              /\ IF response.error
                 THEN Finish(m, Raised(msg))
                 ELSE Finish(m, Returned(response.registers[1]))
    /\ UNCHANGED locals

(* a setter of a single register: one write_register, not isError() returned *)
Set16(m, op_call, reg, value) ==
    /\ call' = [call EXCEPT ![m] = op_call]
    /\ \E err \in BOOLEAN, applied \in BOOLEAN :
          /\ BusWrite(m, LogAtCall(m), "write_register", reg, <<value>>, err, applied)
          /\ Finish(m, Returned(~err))
    /\ UNCHANGED locals

(* what the setters of a single register are called with *)
SetterInputs == {1000}

get_speed(m) ==
    /\ pc[m] = "idle"
    /\ Get16(m, "get_speed", "MOTOR_SPEED", "Unable to retrieve current speed")

get_torque(m) ==
    /\ pc[m] = "idle"
    /\ Get16(m, "get_torque", "MOTOR_TORQUE", "Unable to retrieve current torque")

get_acceleration(m) ==
    /\ pc[m] = "idle"
    /\ Get16(m, "get_acceleration", "MOTOR_RAMP_ACC", "Unable to retrieve current acceleration")

get_max_speed(m) ==
    /\ pc[m] = "idle"
    /\ Get16(m, "get_max_speed", "MOTOR_MAX_SPEED", "Unable to retrieve max speed")

get_max_torque(m) ==
    /\ pc[m] = "idle"
    /\ Get16(m, "get_max_torque", "MOTOR_MAX_TORQUE", "Unable to retrieve current torque")

get_max_acceleration(m) ==
    /\ pc[m] = "idle"
    /\ Get16(m, "get_max_acceleration", "MOTOR_MAX_ACCELERATION",
             "Unable to retrieve max acceleration")

get_mode(m) ==
    /\ pc[m] = "idle"
    /\ Get16(m, "get_mode", "MODE", "Unable to retrieve current mode")

set_max_speed(m) ==
    /\ pc[m] = "idle"
    /\ \E sm_units \in SetterInputs :
          Set16(m, [op |-> "set_max_speed", sm_units |-> sm_units], "MOTOR_MAX_SPEED", sm_units)

set_max_torque(m) ==
    /\ pc[m] = "idle"
    /\ \E torque \in SetterInputs :
          Set16(m, [op |-> "set_max_torque", torque |-> torque], "MOTOR_MAX_TORQUE", torque)

set_max_acceleration(m) ==
    /\ pc[m] = "idle"
    /\ \E steps \in SetterInputs :
          Set16(m, [op |-> "set_max_acceleration", steps |-> steps],
                "MOTOR_MAX_ACCELERATION", steps)

set_max_deceleration(m) ==
    /\ pc[m] = "idle"
    /\ \E steps \in SetterInputs :
          Set16(m, [op |-> "set_max_deceleration", steps |-> steps],
                "MOTOR_MAX_DECELERATION", steps)

set_mode(m) ==
    /\ pc[m] = "idle"
    /\ \E mode \in Modes :
          Set16(m, [op |-> "set_mode", mode |-> mode], "MODE", mode)

reset_motor(m) ==
    /\ pc[m] = "idle"
    /\ Set16(m, [op |-> "reset_motor"], "MODE", RESET)

stop_motor(m) ==
    /\ pc[m] = "idle"
    /\ Set16(m, [op |-> "stop_motor"], "MODE", STOP)

(* register contents the getters read *)
AccessorWords == {10, 65526}

InitAccessors ==
    /\ NoConverter
    /\ \E w \in AccessorWords :
          registers = [u \in Units |->
                          [r \in DOMAIN IdleDevice(RESET) |->
                              IF r \in {"MOTOR_SPEED", "MOTOR_TORQUE", "MOTOR_RAMP_ACC",
                                        "MOTOR_MAX_SPEED", "MOTOR_MAX_TORQUE",
                                        "MOTOR_MAX_ACCELERATION"}
                              THEN <<w>>
                              ELSE IdleDevice(RESET)[r]]]
    /\ pc = [m \in Motors |-> IF m = "m1" THEN "idle" ELSE "absent"]
    /\ call = [m \in Motors |-> [op |-> "none"]]
    /\ locals = [m \in Motors |-> <<>>]
    /\ ret = [m \in Motors |-> [kind |-> "none"]]
    /\ bus_log = <<>>

NextAccessors ==
    \/ \E m \in Motors : get_position(m)
    \/ \E m \in Motors : get_speed(m)
    \/ \E m \in Motors : get_torque(m)
    \/ \E m \in Motors : get_acceleration(m)
    \/ \E m \in Motors : get_current_target(m)
    \/ \E m \in Motors : get_max_speed(m)
    \/ \E m \in Motors : get_max_torque(m)
    \/ \E m \in Motors : get_max_acceleration(m)
    \/ \E m \in Motors : get_mode(m)
    \/ \E m \in Motors : set_max_speed(m)
    \/ \E m \in Motors : set_max_torque(m)
    \/ \E m \in Motors : set_max_acceleration(m)
    \/ \E m \in Motors : set_max_deceleration(m)
    \/ \E m \in Motors : set_mode(m)
    \/ \E m \in Motors : set_target(m)
    \/ \E m \in Motors : reset_motor(m)
    \/ \E m \in Motors : stop_motor(m)

SpecAccessors == InitAccessors /\ [][NextAccessors]_vars

(***************************************************************************)
(* One Motor on the bus, called for composite commands.                     *)
(***************************************************************************)
(* one Motor on the bus, its device in any of the modes *)
Init ==
    /\ NoConverter
    /\ \E mode \in Modes :
          registers = [u \in Units |-> IdleDevice(mode)]
    /\ pc = [m \in Motors |-> IF m = "m1" THEN "idle" ELSE "absent"]
    /\ call = [m \in Motors |-> [op |-> "none"]]
    /\ locals = [m \in Motors |-> <<>>]
    /\ ret = [m \in Motors |-> [kind |-> "none"]]
    /\ bus_log = <<>>

Next ==
    \/ \E m \in Motors : go_with_speed_get_mode(m)
    \/ \E m \in Motors : go_with_speed_reset_motor(m)
    \/ \E m \in Motors : go_with_speed_set_mode(m)
    \/ \E m \in Motors : go_with_speed_set_max_acceleration(m)
    \/ \E m \in Motors : go_with_speed_set_target(m)
    \/ \E m \in Motors : go_to_position_get_mode(m)
    \/ \E m \in Motors : go_to_position_reset_motor(m)
    \/ \E m \in Motors : go_to_position_set_mode(m)
    \/ \E m \in Motors : go_to_position_set_max_speed(m)
    \/ \E m \in Motors : go_to_position_set_max_acceleration(m)
    \/ \E m \in Motors : go_to_position_set_target(m)

Spec == Init /\ [][Next]_vars

(* the exchanges in log that the bus client answered with an error *)
Faults(log) == Cardinality({i \in DOMAIN log : log[i].error})

(* at most MaxFaults exchanges since the log began are answered with an error *)
FaultBudget == Faults(bus_log) <= MaxFaults

(***************************************************************************)
(* One Motor on the bus, called for composite commands and, between them,   *)
(* for set_mode, reset_motor and stop_motor; the MODE register is also      *)
(* written by other participants of the bus.                                *)
(***************************************************************************)
(* another participant of the bus (a second master, the SimplexMotion tool) *)
(* writes the MODE register of a Motor's device, between two calls of the   *)
(* Motor                                                                    *)
other_participant_writes_mode ==
    /\ \E m \in Motors, mode \in Modes :
          /\ pc[m] = "idle"
          /\ registers[address[m]]["MODE"] # <<mode>>
          /\ registers' = [registers EXCEPT ![address[m]]["MODE"] = <<mode>>]
    /\ UNCHANGED <<pc, call, locals, ret, bus_log>>
    /\ UNCHANGED cv_vars

NextModes ==
    \/ \E m \in Motors : go_with_speed_get_mode(m) /\ FaultBudget'
    \/ \E m \in Motors : go_with_speed_reset_motor(m) /\ FaultBudget'
    \/ \E m \in Motors : go_with_speed_set_mode(m) /\ FaultBudget'
    \/ \E m \in Motors : go_with_speed_set_max_acceleration(m) /\ FaultBudget'
    \/ \E m \in Motors : go_with_speed_set_target(m) /\ FaultBudget'
    \/ \E m \in Motors : go_to_position_get_mode(m) /\ FaultBudget'
    \/ \E m \in Motors : go_to_position_reset_motor(m) /\ FaultBudget'
    \/ \E m \in Motors : go_to_position_set_mode(m) /\ FaultBudget'
    \/ \E m \in Motors : go_to_position_set_max_speed(m) /\ FaultBudget'
    \/ \E m \in Motors : go_to_position_set_max_acceleration(m) /\ FaultBudget'
    \/ \E m \in Motors : go_to_position_set_target(m) /\ FaultBudget'
    \/ \E m \in Motors : set_mode(m)
    \/ \E m \in Motors : reset_motor(m)
    \/ \E m \in Motors : stop_motor(m)
    \/ other_participant_writes_mode

SpecModes == Init /\ [][NextModes]_vars

(***************************************************************************)
(* Two Motors on one bus client, each called from a thread of its own: one  *)
(* thread calls go_with_speed on m1, the other go_to_position on m2.  The   *)
(* code holds no lock, so the threads' bus exchanges interleave freely; one *)
(* exchange (a blocking call of the client) is one step.                    *)
(***************************************************************************)
InitShared ==
    /\ NoConverter
    /\ \E mode \in Modes :
          registers = [u \in Units |-> IdleDevice(mode)]
    /\ pc = [m \in Motors |-> "idle"]
    /\ call = [m \in Motors |-> [op |-> "none"]]
    /\ locals = [m \in Motors |-> <<>>]
    /\ ret = [m \in Motors |-> [kind |-> "none"]]
    /\ bus_log = <<>>

NextShared ==
    \/ \E m \in {"m1"} : ret[m].kind = "none" /\ go_with_speed_get_mode(m) /\ FaultBudget'
    \/ \E m \in Motors : go_with_speed_reset_motor(m) /\ FaultBudget'
    \/ \E m \in Motors : go_with_speed_set_mode(m) /\ FaultBudget'
    \/ \E m \in Motors : go_with_speed_set_max_acceleration(m) /\ FaultBudget'
    \/ \E m \in Motors : go_with_speed_set_target(m) /\ FaultBudget'
    \/ \E m \in {"m2"} : ret[m].kind = "none" /\ go_to_position_get_mode(m) /\ FaultBudget'
    \/ \E m \in Motors : go_to_position_reset_motor(m) /\ FaultBudget'
    \/ \E m \in Motors : go_to_position_set_mode(m) /\ FaultBudget'
    \/ \E m \in Motors : go_to_position_set_max_speed(m) /\ FaultBudget'
    \/ \E m \in Motors : go_to_position_set_max_acceleration(m) /\ FaultBudget'
    \/ \E m \in Motors : go_to_position_set_target(m) /\ FaultBudget'

SpecShared == InitShared /\ [][NextShared]_vars

(***************************************************************************)
(* The converter under a caller that converts degrees to SMUnits, converts  *)
(* the result back, and then converts a later SMUnits value.                *)
(***************************************************************************)
InitConv ==
    /\ NoMotor
    /\ gear_multiplier \in 1..MaxGear
    /\ cv_arg \in -MaxArg..MaxArg
    /\ cv_pc = "start"
    /\ cv_steps = NoValue
    /\ cv_degrees = NoValue
    /\ cv_steps2 = NoValue
    /\ cv_degrees2 = NoValue
    /\ wheel_size = <<>>
    /\ cv_init = [op |-> "none"]
    /\ cv_call = [op |-> "none"]
    /\ cv_ret = [kind |-> "none"]

DegreesToSmunits ==
    /\ cv_pc = "start"
    /\ cv_steps' = convert_degrees_to_smunits(gear_multiplier, cv_arg)
    /\ cv_pc' = "steps"
    /\ UNCHANGED <<gear_multiplier, cv_arg, cv_degrees, cv_steps2, cv_degrees2>>
    /\ UNCHANGED <<wheel_size, cv_init, cv_call, cv_ret>>
    /\ UNCHANGED motor_vars

SmunitsToDegrees ==
    /\ cv_pc = "steps"
    /\ cv_degrees' = convert_smunits_to_degrees(gear_multiplier, cv_steps)
    /\ cv_pc' = "back"
    /\ UNCHANGED <<gear_multiplier, cv_arg, cv_steps, cv_steps2, cv_degrees2>>
    /\ UNCHANGED <<wheel_size, cv_init, cv_call, cv_ret>>
    /\ UNCHANGED motor_vars

SmunitsToDegreesLater ==
    /\ cv_pc = "back"
    /\ \E k \in 0..MaxSpan :
          /\ cv_steps2' = cv_steps + k
          /\ cv_degrees2' = convert_smunits_to_degrees(gear_multiplier, cv_steps + k)
    /\ cv_pc' = "later"
    /\ UNCHANGED <<gear_multiplier, cv_arg, cv_steps, cv_degrees>>
    /\ UNCHANGED <<wheel_size, cv_init, cv_call, cv_ret>>
    /\ UNCHANGED motor_vars

NextConv == DegreesToSmunits \/ SmunitsToDegrees \/ SmunitsToDegreesLater

SpecConv == InitConv /\ [][NextConv]_vars

(***************************************************************************)
(* The converter under a caller that constructs it and calls conversions.   *)
(***************************************************************************)
PyFloat(t) == [type |-> "float", v |-> t]

(* isinstance(x, int) *)
isinstance_int(x) == x.type = "int"

(* kwargs.get(key, default), kwargs a set of <<key, value>> pairs *)
kwargs_get(kwargs, key, default) ==
    IF \E p \in kwargs : p[1] = key
    THEN (CHOOSE p \in kwargs : p[1] = key)[2]
    ELSE default

(* what the constructor and the conversions are called with *)
GearArguments == {PyInt(-2), PyInt(0), PyInt(1), PyInt(3), PyFloat("1.5"), PyStr("2")}
KwargsArguments ==
    { {}, {<<"wheel_size", 1>>}, {<<"wheel_size", 2>>}, {<<"wheel_radius", 3>>} }
ConvertArguments == {-4096, -360, -1, 0, 1, 360, 4096}

ConverterUnchanged == UNCHANGED <<cv_arg, cv_steps, cv_degrees, cv_steps2, cv_degrees2>>

(* PySimplexConverter(gear, **kwargs) *)
PySimplexConverter_init ==
    /\ cv_pc = "absent"
    /\ \E gear \in GearArguments, kwargs \in KwargsArguments :
          /\ cv_init' = [op |-> "__init__", gear_multiplier |-> gear, kwargs |-> kwargs]
          /\ IF ~isinstance_int(gear)
             THEN /\ cv_ret' = Raised("AssertionError")
                  /\ UNCHANGED <<gear_multiplier, wheel_size, cv_pc>>
             ELSE /\ gear_multiplier' = gear.v
                  /\ wheel_size' = IF Cardinality(kwargs) > 0
                                   THEN <<kwargs_get(kwargs, "wheel_size", 1)>>
                                   ELSE wheel_size
                  /\ cv_pc' = "constructed"
                  /\ cv_ret' = Returned(NoValue)
    /\ UNCHANGED cv_call
    /\ ConverterUnchanged
    /\ UNCHANGED motor_vars

(* a conversion is called with arg and ends with outcome *)
Conversion(op, arg, outcome) ==
    /\ cv_call' = [op |-> op, arg |-> arg]
    /\ cv_ret' = outcome
    /\ UNCHANGED <<gear_multiplier, wheel_size, cv_pc, cv_init>>
    /\ ConverterUnchanged
    /\ UNCHANGED motor_vars

CallSmunitsToDegrees ==
    /\ cv_pc = "constructed"
    /\ \E steps \in ConvertArguments :
          Conversion("convert_smunits_to_degrees", steps,
                     IF gear_multiplier = 0
                     THEN Raised("ZeroDivisionError")
                     ELSE Returned(convert_smunits_to_degrees(gear_multiplier, steps)))

CallDegreesToSmunits ==
    /\ cv_pc = "constructed"
    /\ \E degrees \in ConvertArguments :
          Conversion("convert_degrees_to_smunits", degrees,
                     Returned(convert_degrees_to_smunits(gear_multiplier, degrees)))

CallMetersToSteps ==
    /\ cv_pc = "constructed"
    /\ \E meters \in ConvertArguments :
          Conversion("convert_meters_to_steps", meters,
                     IF wheel_size = <<>>
                     THEN Raised("AttributeError")
                     ELSE Returned(convert_meters_to_steps(gear_multiplier, wheel_size[1],
                                                           meters)))

CallStepsToMeters ==
    /\ cv_pc = "constructed"
    /\ \E steps \in ConvertArguments :
          Conversion("convert_steps_to_meters", steps,
                     IF gear_multiplier = 0
                     THEN Raised("ZeroDivisionError")
                     ELSE IF wheel_size = <<>>
                     THEN Raised("AttributeError")
                     ELSE Returned(convert_steps_to_meters(gear_multiplier, wheel_size[1],
                                                           steps)))

InitConstruct ==
    /\ NoMotor
    /\ NoConverter

NextConstruct ==
    \/ PySimplexConverter_init
    \/ CallSmunitsToDegrees
    \/ CallDegreesToSmunits
    \/ CallMetersToSteps
    \/ CallStepsToMeters

SpecConstruct == InitConstruct /\ [][NextConstruct]_vars

(***************************************************************************)
(* Properties                                                               *)
(***************************************************************************)
(* the exchanges Motor m made in its current (or last) call *)
CallLog(m) == SelectSeq(bus_log, LAMBDA e : e.by = m)

IsWrite(e) == e.fn \in {"write_register", "write_registers"}

WriteOf(e) == <<e.fn, e.address, e.values>>

Composite(m) == call[m].op \in {"go_with_speed", "go_to_position"}

TargetModeOf(m) == IF call[m].op = "go_with_speed" THEN 33 ELSE 21

(* bits 31-16 and bits 15-0 of the two's-complement form of t *)
Word32(t) == << (t \div 65536) % 65536, t % 65536 >>

(* the call of Motor m began by reading MODE and found the target mode *)
ObservedTargetMode(m) ==
    /\ Composite(m)
    /\ CallLog(m) # <<>>
    /\ LET e == CallLog(m)[1]
       IN  /\ e.fn = "read_holding_registers"
           /\ e.address = "MODE"
           /\ ~e.error
           /\ e.registers = <<TargetModeOf(m)>>

(* the parameter writes and the target write of a composite command *)
SkipWrites(c) ==
    IF c.op = "go_with_speed"
    THEN << <<"write_register", "MOTOR_MAX_ACCELERATION", <<c.acc_units>> >>,
            <<"write_registers", "SET_MOTOR_TARGET", Word32(c.speed_units)>> >>
    ELSE << <<"write_register", "MOTOR_MAX_SPEED", <<c.speed_units>> >>,
            <<"write_register", "MOTOR_MAX_ACCELERATION", <<c.acc_units>> >>,
            <<"write_registers", "SET_MOTOR_TARGET", Word32(c.steps)>> >>

(* C1: a go_with_speed / go_to_position call whose initial MODE read returns *)
(* the target mode (33 / 21) writes nothing to MODE; what it writes is a     *)
(* prefix of: [max-speed,] max-acceleration, target, and all of it once the  *)
(* call has ended, which it then does by returning.                          *)
C1_ModeSwitchSkip ==
    \A m \in Motors :
        ObservedTargetMode(m) =>
            LET log    == CallLog(m)
                writes == [i \in 1..(Len(log) - 1) |-> WriteOf(log[i + 1])]
                expect == SkipWrites(call[m])
            IN  /\ \A i \in 2..Len(log) : IsWrite(log[i]) /\ log[i].address # "MODE"
                /\ Len(writes) <= Len(expect)
                /\ writes = SubSeq(expect, 1, Len(writes))
                /\ pc[m] = "idle" => (writes = expect /\ ret[m].kind = "return")

C1_Witness ==
    /\ pc["m1"] = "idle"
    /\ call["m1"].op = "go_with_speed"
    /\ ObservedTargetMode("m1")
    /\ Len(CallLog("m1")) = 3
    /\ ret["m1"] = Returned(TRUE)

(* the i-th exchange of Motor m's call is the write of the target mode and   *)
(* the bus client reported an error for it                                  *)
ModeWriteFailedAt(m, i) ==
    LET e == CallLog(m)[i]
    IN  /\ e.fn = "write_register"
        /\ e.address = "MODE"
        /\ e.values = <<TargetModeOf(m)>>
        /\ e.error

(* C2: in go_to_position / go_with_speed, when the write of the target mode  *)
(* (MODE=21 / MODE=33) is answered with an error, that write is the call's   *)
(* last bus exchange and the call does not return a success value.           *)
C2_ModeWriteFailureAborts ==
    \A m \in Motors :
        Composite(m) =>
            \A i \in DOMAIN CallLog(m) :
                ModeWriteFailedAt(m, i) =>
                    /\ i = Len(CallLog(m))
                    /\ pc[m] = "idle" => ret[m] # Returned(TRUE)

(* C3: in go_with_speed / go_to_position, a sub-step write answered with an  *)
(* error is the call's last bus exchange (no later sub-step, no undo write)  *)
(* and the call signals failure.                                             *)
C3_FirstFailureAborts ==
    \A m \in Motors :
        Composite(m) =>
            \A i \in DOMAIN CallLog(m) :
                (IsWrite(CallLog(m)[i]) /\ CallLog(m)[i].error) =>
                    /\ i = Len(CallLog(m))
                    /\ pc[m] = "idle" => ret[m] \in {Raised("Unable to reset motor"), Returned(FALSE)}

StatusReads ==
    << <<"MOTOR_POS", 4>>, <<"MOTOR_VOLTAGE", 1>>, <<"TORQUE_CURRENT", 1>>,
       <<"TEMP_ELECTRONICS", 2>>, <<"ERROR", 1>> >>

StatusFields ==
    {"position", "speed", "torque", "voltage", "current", "electronics_temp",
     "motor_temp", "error"}

(* Motor m has finished a get_current_status call *)
StatusDone(m) == pc[m] = "idle" /\ call[m].op = "get_current_status"

(* C4: a finished get_current_status call made exactly the five reads        *)
(* (4 at MOTOR_POS, 1 at MOTOR_VOLTAGE, 1 at TORQUE_CURRENT, 2 at            *)
(* TEMP_ELECTRONICS, 1 at ERROR); if any of them reported an error it        *)
(* raised the communication failure and returned nothing, and if none did    *)
(* it returned a record with all eight fields.                               *)
C4_StatusAllOrNothing ==
    \A m \in Motors :
        StatusDone(m) =>
            LET log == CallLog(m)
            IN  /\ Len(log) = 5
                /\ \A i \in 1..5 :
                      /\ log[i].fn = "read_holding_registers"
                      /\ <<log[i].address, log[i].count>> = StatusReads[i]
                /\ (\E i \in 1..5 : log[i].error) =>
                      ret[m] = Raised("Unable to get motor data")
                /\ (\A i \in 1..5 : ~log[i].error) =>
                      (ret[m].kind = "return" /\ DOMAIN ret[m].value = StatusFields)

C4_Witness ==
    /\ StatusDone("m1")
    /\ Len(CallLog("m1")) = 5
    /\ \A i \in 1..5 : CallLog("m1")[i].error <=> i = 2
    /\ ret["m1"].kind = "raise"

(* Motor m has read the registers of the status decode example *)
ExampleRead(m) ==
    /\ StatusDone(m)
    /\ Len(CallLog(m)) = 5
    /\ \A i \in 1..5 : ~CallLog(m)[i].error
    /\ [i \in 1..5 |-> CallLog(m)[i].registers] =
          << <<0, 16, 5, 65526>>, <<230>>, <<50>>, <<30, 25>>, <<4097>> >>

ExampleStatus(description) ==
    [position |-> 16, speed |-> 5, torque |-> -10, voltage |-> 230, current |-> 50,
     electronics_temp |-> 30, motor_temp |-> 25, error |-> PyStr(description)]

(* C5 as stated: the example registers ([0x0000,0x0010,0x0005,0xFFF6],       *)
(* [0x00E6], [0x0032], [0x001E,0x0019], [0x1001]) decode to position 16,     *)
(* speed 5, torque -10, voltage 230, current 50, temperatures 30 and 25, and *)
(* error "Temperature of electronics is too high".                           *)
C5_ExampleAsStated ==
    \A m \in Motors :
        ExampleRead(m) =>
            ret[m] = Returned(ExampleStatus("Temperature of electronics is too high"))

(* C5 amended: the same registers decode to the same numbers, and the error  *)
(* register 0x1001 (4097) to "General communication error".                  *)
C5_ExampleDecode ==
    \A m \in Motors :
        ExampleRead(m) =>
            ret[m] = Returned(ExampleStatus("General communication error"))

C5_Witness == ExampleRead("m1") /\ ret["m1"].kind = "return"

TabulatedCodes ==
    {0, 1, 2, 3, 4097, 4098} \cup 4353..4358
        \cup {8193, 12289, 12290, 16385, 16386, 20481, 24577, 28673}

(* the description the table gives for a tabulated code *)
DescriptionOf(code) ==
    ErrorTable[CHOOSE i \in DOMAIN ErrorTable : ErrorTable[i][1] = code][2]

(* C6: the table has 20 distinct codes; when all five reads of               *)
(* get_current_status succeed the call returns a record whatever the error   *)
(* register holds, whose error field is the description of the code if the   *)
(* code is tabulated and the numeric code itself otherwise.                  *)
C6_ErrorLookup ==
    /\ ErrorCodes = TabulatedCodes
    /\ Cardinality(ErrorCodes) = Len(ErrorTable)
    /\ \A m \in Motors :
          (StatusDone(m) /\ \A i \in DOMAIN CallLog(m) : ~CallLog(m)[i].error) =>
              LET code == CallLog(m)[5].registers[1]
              IN  /\ ret[m].kind = "return"
                  /\ code \in TabulatedCodes =>
                        ret[m].value.error = PyStr(DescriptionOf(code))
                  /\ code \notin TabulatedCodes =>
                        ret[m].value.error = PyInt(code)

C6_Witness ==
    /\ StatusDone("m1")
    /\ ret["m1"].kind = "return"
    /\ ret["m1"].value.error = PyInt(4099)

(* C7: set_target(t) makes one write_registers exchange of the two registers *)
(* <<bits 31-16, bits 15-0>> of t at SET_MOTOR_TARGET; the value             *)
(* get_current_target / get_position return is the signed 32-bit v whose     *)
(* two registers are the ones read, so reading back what set_target(t)       *)
(* wrote gives t.                                                            *)
C7_TargetEncoding ==
    \A m \in Motors :
        pc[m] = "idle" =>
            LET log == CallLog(m)
            IN  /\ call[m].op = "set_target" =>
                      /\ Len(log) = 1
                      /\ WriteOf(log[1]) =
                            <<"write_registers", "SET_MOTOR_TARGET", Word32(call[m].target)>>
                      /\ ~log[1].error =>
                            registers[address[m]]["SET_MOTOR_TARGET"] = Word32(call[m].target)
                /\ (call[m].op \in {"get_current_target", "get_position"}
                        /\ ret[m].kind = "return") =>
                      /\ Len(log) = 1
                      /\ log[1].count = 2
                      /\ ret[m].value \in (-2147483647 - 1)..2147483647
                      /\ log[1].registers = Word32(ret[m].value)
                      /\ call[m].op = "get_current_target" =>
                            \A t \in TargetInputs :
                                registers[address[m]]["SET_MOTOR_TARGET"] = Word32(t)
                                    => ret[m].value = t

C7_Witness ==
    /\ pc["m1"] = "idle"
    /\ call["m1"].op = "get_current_target"
    /\ ret["m1"] = Returned(-65537)

(* C8: for degrees d >= 0 and gear g >= 1,                                   *)
(* r = convert_smunits_to_degrees(convert_degrees_to_smunits(d)) satisfies   *)
(* d - 1 <= r <= d.                                                          *)
C8_RoundTripBound ==
    (cv_pc \in {"back", "later"} /\ cv_arg >= 0) =>
        (cv_arg - 1 <= cv_degrees /\ cv_degrees <= cv_arg)

C8_Witness == cv_pc = "back" /\ cv_arg > 0 /\ gear_multiplier > 1 /\ cv_degrees = cv_arg - 1

(* C9: convert_degrees_to_smunits(d) is the floor of d * 4096 * g / 360 for  *)
(* every integer d and every gear g >= 1.                                    *)
C9_FloorOfRealFormula ==
    cv_pc \in {"steps", "back", "later"} =>
        cv_steps = (cv_arg * 4096 * gear_multiplier) \div 360

(* C10: for steps s1 <= s2 and a fixed gear,                                 *)
(* convert_smunits_to_degrees(s1) <= convert_smunits_to_degrees(s2).         *)
C10_Monotonic ==
    (cv_pc = "later" /\ cv_steps <= cv_steps2) => cv_degrees <= cv_degrees2

C10_Witness ==
    cv_pc = "later" /\ cv_steps < 0 /\ cv_steps < cv_steps2 /\ cv_degrees < cv_degrees2

MetersConversions == {"convert_meters_to_steps", "convert_steps_to_meters"}

(* the converter was constructed and no wheel_size keyword was passed *)
ConstructedWithoutWheelSize ==
    /\ cv_pc = "constructed"
    /\ \A p \in cv_init.kwargs : p[1] # "wheel_size"

(* C11: on a converter constructed without a wheel_size keyword (no keyword  *)
(* at all, or only other keywords), every call of convert_meters_to_steps   *)
(* and convert_steps_to_meters raises ConfigurationError and returns no     *)
(* number.                                                                   *)
C11_MetersNeedWheelSize ==
    (ConstructedWithoutWheelSize /\ cv_call.op \in MetersConversions) =>
        cv_ret = Raised("ConfigurationError")

(* C12: no converter is constructed from a gear_multiplier that is not an    *)
(* integer or is an integer <= 0, and no conversion of a constructed         *)
(* converter ends in a division by zero.                                     *)
C12_ConstructorValidation ==
    cv_pc = "constructed" =>
        /\ isinstance_int(cv_init.gear_multiplier)
        /\ cv_init.gear_multiplier.v > 0
        /\ cv_ret # Raised("ZeroDivisionError")

(* the read each getter makes: register and count *)
GetterReads ==
    [get_position         |-> <<"MOTOR_POS", 2>>,
     get_speed            |-> <<"MOTOR_SPEED", 1>>,
     get_torque           |-> <<"MOTOR_TORQUE", 1>>,
     get_acceleration     |-> <<"MOTOR_RAMP_ACC", 1>>,
     get_current_target   |-> <<"SET_MOTOR_TARGET", 2>>,
     get_max_speed        |-> <<"MOTOR_MAX_SPEED", 1>>,
     get_max_torque       |-> <<"MOTOR_MAX_TORQUE", 1>>,
     get_max_acceleration |-> <<"MOTOR_MAX_ACCELERATION", 1>>,
     get_mode             |-> <<"MODE", 1>>]

(* the write each setter makes: function and register *)
SetterWrites ==
    [set_max_speed        |-> <<"write_register", "MOTOR_MAX_SPEED">>,
     set_max_torque       |-> <<"write_register", "MOTOR_MAX_TORQUE">>,
     set_max_acceleration |-> <<"write_register", "MOTOR_MAX_ACCELERATION">>,
     set_max_deceleration |-> <<"write_register", "MOTOR_MAX_DECELERATION">>,
     set_mode             |-> <<"write_register", "MODE">>,
     set_target           |-> <<"write_registers", "SET_MOTOR_TARGET">>,
     reset_motor          |-> <<"write_register", "MODE">>,
     stop_motor           |-> <<"write_register", "MODE">>]

(* C13: a finished getter call made exactly one read_holding_registers       *)
(* exchange, of its register, and raised if the response was an error and    *)
(* returned a value otherwise; a finished setter call made exactly one write *)
(* exchange, of its register, and returned TRUE exactly when the response    *)
(* was not an error.  No exchange is repeated.                               *)
C13_OneExchangePerPrimitive ==
    \A m \in Motors :
        pc[m] = "idle" =>
            LET log == CallLog(m)
                op  == call[m].op
            IN  /\ op \in DOMAIN GetterReads =>
                      /\ Len(log) = 1
                      /\ log[1].fn = "read_holding_registers"
                      /\ <<log[1].address, log[1].count>> = GetterReads[op]
                      /\ log[1].error => ret[m].kind = "raise"
                      /\ ~log[1].error => ret[m].kind = "return"
                /\ op \in DOMAIN SetterWrites =>
                      /\ Len(log) = 1
                      /\ <<log[1].fn, log[1].address>> = SetterWrites[op]
                      /\ ret[m] = Returned(~log[1].error)

C13_Witness ==
    /\ pc["m1"] = "idle"
    /\ call["m1"].op = "get_max_speed"
    /\ Len(CallLog("m1")) = 1
    /\ CallLog("m1")[1].error
    /\ ret["m1"].kind = "raise"
    /\ registers[1]["MOTOR_MAX_DECELERATION"] = <<1000>>

(* C14: with two Motors on one bus client running composite commands from   *)
(* two threads and nothing outside serializing them, the exchanges of each  *)
(* command are consecutive on the bus: no exchange of the other Motor lies  *)
(* between two exchanges of one command.                                    *)
C14_UninterruptedComposite ==
    \A m \in Motors :
        Composite(m) =>
            \A i \in DOMAIN bus_log, k \in DOMAIN bus_log :
                (i < k /\ bus_log[i].by = m /\ bus_log[k].by = m) =>
                    \A j \in i..k : bus_log[j].by = m

(* the mode-switch writes of a composite command *)
SwitchWrites(c) ==
    << <<"write_register", "MODE", <<1>> >>,
       <<"write_register", "MODE", <<IF c.op = "go_with_speed" THEN 33 ELSE 21>> >> >>

(* the writes Motor m has made in its call, in the order of the bus *)
WritesOf(m) == [i \in 1..(Len(CallLog(m)) - 1) |-> WriteOf(CallLog(m)[i + 1])]

(* the call of Motor m began by reading MODE and found another mode than    *)
(* its target mode                                                          *)
ObservedOtherMode(m) ==
    /\ Composite(m)
    /\ CallLog(m) # <<>>
    /\ LET e == CallLog(m)[1]
       IN  /\ e.fn = "read_holding_registers"
           /\ e.address = "MODE"
           /\ ~e.error
           /\ e.registers # <<TargetModeOf(m)>>

IsPrefix(p, q) == Len(p) <= Len(q) /\ p = SubSeq(q, 1, Len(p))

(* C15: a go_with_speed call whose initial MODE read returns another value   *)
(* than 33 and whose writes all succeed makes, after that read, a prefix of  *)
(* the writes MODE=1, MODE=33, MOTOR_MAX_ACCELERATION=acc_units, target =    *)
(* speed_units (two registers), one after the other, and all four once it    *)
(* has ended; MOTOR_MAX_SPEED is not written.                                *)
C15_SpeedSwitchOrder ==
    \A m \in Motors :
        (/\ ObservedOtherMode(m)
         /\ call[m].op = "go_with_speed"
         /\ \A i \in DOMAIN CallLog(m) : ~CallLog(m)[i].error) =>
            LET expect == SwitchWrites(call[m]) \o SkipWrites(call[m])
            IN  /\ \A i \in 2..Len(CallLog(m)) : IsWrite(CallLog(m)[i])
                /\ IsPrefix(WritesOf(m), expect)
                /\ Len(expect) = 4
                /\ pc[m] = "idle" => WritesOf(m) = expect
                /\ \A i \in DOMAIN CallLog(m) : CallLog(m)[i].address # "MOTOR_MAX_SPEED"

C15_Witness ==
    /\ pc["m1"] = "idle"
    /\ call["m1"].op = "go_with_speed"
    /\ ObservedOtherMode("m1")
    /\ Len(CallLog("m1")) = 5
    /\ \A i \in 1..5 : ~CallLog("m1")[i].error

(* C16: a go_to_position call that returned wrote, after its MODE read,      *)
(* MOTOR_MAX_SPEED=speed_units, then MOTOR_MAX_ACCELERATION=acc_units, then  *)
(* the two-register target of steps, and nothing else if the read returned   *)
(* 21; if it returned another mode these three writes come after MODE=1 and  *)
(* MODE=21, in this order.  While the call runs, its writes are a prefix of  *)
(* that sequence.                                                            *)
C16_PositionOrder ==
    \A m \in Motors :
        (Composite(m) /\ call[m].op = "go_to_position" /\ Len(CallLog(m)) >= 2) =>
            LET c      == call[m]
                limits == << <<"write_register", "MOTOR_MAX_SPEED", <<c.speed_units>> >>,
                             <<"write_register", "MOTOR_MAX_ACCELERATION", <<c.acc_units>> >>,
                             <<"write_registers", "SET_MOTOR_TARGET", Word32(c.steps)>> >>
                switch == << <<"write_register", "MODE", <<1>> >>,
                             <<"write_register", "MODE", <<21>> >> >>
                expect == IF CallLog(m)[1].registers = <<21>> THEN limits ELSE switch \o limits
            IN  /\ ~CallLog(m)[1].error
                /\ IsPrefix(WritesOf(m), expect)
                /\ (pc[m] = "idle" /\ ret[m].kind = "return") => WritesOf(m) = expect

C16_Witness ==
    /\ pc["m1"] = "idle"
    /\ call["m1"].op = "go_to_position"
    /\ ObservedOtherMode("m1")
    /\ ret["m1"] = Returned(TRUE)
    /\ Len(CallLog("m1")) = 6
    /\ \A i \in 1..6 : ~CallLog("m1")[i].error

(* the second exchange of Motor m's composite call is the reset write and    *)
(* the bus client reported an error for it                                  *)
ResetFailed(m) ==
    /\ Composite(m)
    /\ Len(CallLog(m)) >= 2
    /\ WriteOf(CallLog(m)[2]) = <<"write_register", "MODE", <<1>> >>
    /\ CallLog(m)[2].error

(* Motor m takes the step from label to the end of its call *)
EndsFrom(m, label) == pc[m] = label /\ pc'[m] = "idle"

(* C17: in go_with_speed / go_to_position, when the reset write (MODE=1) is  *)
(* answered with an error, the call has made two exchanges only, the MODE    *)
(* read and that write, and has ended by raising; the MODE read changes no   *)
(* register, and the step that ends the call at the reset leaves every       *)
(* register but MODE of the Motor's device as it was.                        *)
C17_ResetFailureAborts ==
    /\ [](\A m \in Motors :
             ResetFailed(m) =>
                 /\ Len(CallLog(m)) = 2
                 /\ ObservedOtherMode(m)
                 /\ pc[m] = "idle"
                 /\ ret[m] = Raised("Unable to reset motor"))
    /\ [][\A m \in Motors :
             (pc[m] = "idle" /\ pc'[m] \in {"gws_reset_motor", "gtp_reset_motor"}) =>
                 registers' = registers]_vars
    /\ [][\A m \in Motors :
             (EndsFrom(m, "gws_reset_motor") \/ EndsFrom(m, "gtp_reset_motor")) =>
                 \A u \in Units :
                     \A r \in DOMAIN registers[u] :
                         (u # address[m] \/ r # "MODE") =>
                             registers'[u][r] = registers[u][r]]_vars

C17_Witness ==
    /\ ResetFailed("m1")
    /\ call["m1"].op = "go_to_position"
    /\ ret["m1"].kind = "raise"
    /\ registers[1]["MODE"] = <<1>>
    /\ registers[1]["MOTOR_MAX_SPEED"] = <<1>>

(* C18: every go_with_speed / go_to_position call begins with one read of    *)
(* MODE and makes no other read.  If that read fails the call has ended by   *)
(* raising with no write made.  If it returns another mode than the target   *)
(* mode, whatever earlier calls did, the call does not end before it has     *)
(* written MODE=1, and once that write has succeeded not before it has       *)
(* written the target mode; if it returns the target mode no write goes to   *)
(* MODE.                                                                     *)
C18_ModeNeverCached ==
    \A m \in Motors :
        (Composite(m) /\ CallLog(m) # <<>>) =>
            LET log    == CallLog(m)
                first  == log[1]
                target == IF call[m].op = "go_with_speed" THEN 33 ELSE 21
            IN  /\ first.fn = "read_holding_registers"
                /\ <<first.address, first.count>> = <<"MODE", 1>>
                /\ \A i \in 2..Len(log) : IsWrite(log[i])
                /\ first.error =>
                      /\ Len(log) = 1
                      /\ pc[m] = "idle"
                      /\ ret[m] = Raised("Unable to retrieve current mode")
                /\ (~first.error /\ first.registers # <<target>>) =>
                      /\ pc[m] = "idle" => Len(log) >= 2
                      /\ Len(log) >= 2 =>
                            WriteOf(log[2]) = <<"write_register", "MODE", <<1>> >>
                      /\ (Len(log) >= 2 /\ ~log[2].error) =>
                            /\ pc[m] = "idle" => Len(log) >= 3
                            /\ Len(log) >= 3 =>
                                  WriteOf(log[3]) = <<"write_register", "MODE", <<target>> >>
                /\ (~first.error /\ first.registers = <<target>>) =>
                      \A i \in 2..Len(log) : log[i].address # "MODE"

C18_Witness ==
    /\ call["m1"].op = "go_with_speed"
    /\ pc["m1"] = "gws_set_max_acceleration"
    /\ Len(CallLog("m1")) = 3
    /\ CallLog("m1")[1].registers = <<5>>
    /\ WriteOf(CallLog("m1")[3]) = <<"write_register", "MODE", <<33>> >>
    /\ registers[1]["SET_MOTOR_TARGET"] = <<0, 1>>

(* C19 as stated: get_torque returns the torque register read as a 16-bit    *)
(* signed integer, the value the torque field of get_current_status has for  *)
(* the same register content (0xFFF6 gives -10 from both), while the speed   *)
(* field of the status is the register as read.                              *)
C19_TorqueSigned ==
    \A m \in Motors :
        (pc[m] = "idle" /\ call[m].op = "get_torque" /\ ret[m].kind = "return") =>
            LET content == CallLog(m)[1].registers[1]
                status  == StatusRecord(<<0, 0, content, content>>, <<0>>, <<0>>, <<0, 0>>, <<0>>)
            IN  /\ ret[m].value = (IF content >= 32768 THEN content - 65536 ELSE content)
                /\ ret[m].value = status.torque
                /\ status.speed = content

(* Motor m's composite call has returned *)
CompositeReturned(m) == Composite(m) /\ pc[m] = "idle" /\ ret[m].kind = "return"

(* C20: when a go_with_speed / go_to_position call returns, its last         *)
(* exchange is the two-register target write and the value returned is TRUE  *)
(* exactly when that write was not answered with an error, whatever the      *)
(* outcomes of the call's mode, max-speed and max-acceleration writes.       *)
C20_ReturnIsTargetFlag ==
    \A m \in Motors :
        CompositeReturned(m) =>
            LET last == CallLog(m)[Len(CallLog(m))]
            IN  /\ <<last.fn, last.address>> = <<"write_registers", "SET_MOTOR_TARGET">>
                /\ ret[m].value = ~last.error
                /\ \A i \in 1..(Len(CallLog(m)) - 1) : CallLog(m)[i].address # "SET_MOTOR_TARGET"

C20_Witness ==
    /\ CompositeReturned("m1")
    /\ ret["m1"] = Returned(TRUE)
    /\ \E i \in DOMAIN CallLog("m1") :
          /\ CallLog("m1")[i].address = "MOTOR_MAX_ACCELERATION"
          /\ CallLog("m1")[i].error

====
